---- MODULE Spec2Model ----
(***************************************************************************)
(* Flash-sale purchase admission pipeline.                                 *)
(*                                                                         *)
(* Redis (the fast coordinator) holds the stock key of the sale and one    *)
(* key per user that purchased; Postgres (the durable order log) holds the *)
(* flash_sale row and the orders table with its unique_user_sale           *)
(* constraint.  processPurchase runs once per request; every await of it   *)
(* is a suspension point, so every await is one action of the model and    *)
(* the requests interleave between them.                                   *)
(*                                                                         *)
(* A Redis or Postgres call that fails throws and has no effect on the     *)
(* store (the store was unavailable).  The insert transaction              *)
(* (BEGIN / INSERT / COMMIT) takes effect at one instant: Postgres makes a *)
(* second insert of the same (user_id, sale_id) wait for the first         *)
(* transaction and then fail with 23505.                                   *)
(***************************************************************************)
EXTENDS Integers, Sequences, FiniteSets, TLC

\* Bounds of the model.
MaxReq      == 3   \* purchase requests that arrive when no call fails
MaxFaultReq == 2   \* purchase requests that arrive when calls may fail
MaxStock    == 2   \* largest total_stock of the sale
MaxTime     == 3   \* latest instant of the clock
MaxOps      == 3   \* Redis losses and restore operations in succession
MaxResets   == 2   \* resets in succession

Requests      == 1..MaxReq
FaultRequests == 1..MaxFaultReq

\* config.sale.defaultSaleId: the sale of the seed; no other sale exists.
defaultSaleId == 1
SaleIds == {defaultSaleId, defaultSaleId + 1}

VARIABLES
  flash_sale,    \* start_time and end_time of the flash_sale row of the sale
  now,           \* the clock, as read by the latest request
  total_stock,   \* flash_sale.total_stock of the sale
  orders,        \* rows of the orders table of the sale, in insertion order
  stock,         \* Redis stock key: <<>> when the key is absent, <<n>> otherwise
  marks,         \* users whose Redis purchase key exists
  req,           \* the requests: locals of processPurchase and its position
  adm,           \* the administrative operation in progress and its locals
  hist           \* history: the administrative operations completed so far

vars == <<flash_sale, now, total_stock, orders, stock, marks, req, adm, hist>>

Min(a, b) == IF a < b THEN a ELSE b
Max(a, b) == IF a > b THEN a ELSE b

----------------------------------------------------------------------------
\* PurchaseResult
SUCCESS           == "SUCCESS"
ALREADY_PURCHASED == "ALREADY_PURCHASED"
SOLD_OUT          == "SOLD_OUT"
ERROR             == "ERROR"
SALE_NOT_ACTIVE   == "SALE_NOT_ACTIVE"
SALE_NOT_FOUND    == "SALE_NOT_FOUND"

----------------------------------------------------------------------------
\* Redis primitives on the stock key.

\* GET: the value, read as 0 when the key is absent (DECR / INCR do so).
StockValue(k) == IF k = <<>> THEN 0 ELSE k[1]

\* A decrement that stops at zero.
decrementStock_Clamp(k) == Max(0, StockValue(k) - 1)

\* A GET where the DECR should be: nothing is taken from the counter.
decrementStock_Get(k) == StockValue(k)

\* A DECR that takes an absent key for a sale with all of its stock.
decrementStock_LazyInit(k) == IF k = <<>> THEN total_stock - 1 ELSE k[1] - 1

\* client.decr(key): the new value; an absent key counts as 0.
decrementStock(k) == StockValue(k) - 1

\* An INCR that is acknowledged and not applied.
incrementStock_Lost(k) == StockValue(k)

\* client.incr(key): the new value.
incrementStock(k) == StockValue(k) + 1

----------------------------------------------------------------------------
\* Postgres: the orders table.

\* The rows of the table with status SUCCESS.
SuccessRows == {i \in DOMAIN orders : orders[i].status = "SUCCESS"}

\* COUNT of SUCCESS orders of the sale.
SuccessCount == Cardinality(SuccessRows)

\* SELECT id FROM orders WHERE user_id = u AND status = 'SUCCESS' LIMIT 1
HasSuccessOrder(u) == \E i \in SuccessRows : orders[i].user_id = u

\* The orders table without its unique constraint.
UniqueViolation_None(rows, u) == FALSE

\* CONSTRAINT unique_user_sale UNIQUE (user_id, sale_id): would a row of u
\* violate it?
UniqueViolation(rows, u) == \E i \in DOMAIN rows : rows[i].user_id = u

\* An INSERT whose transaction is never committed.
createOrder_Lost(rows, u, status) == rows

\* createOrder: INSERT INTO orders (sale_id, user_id, status)
createOrder(rows, u, status) == Append(rows, [user_id |-> u, status |-> status])

----------------------------------------------------------------------------
\* Sale service: the stock shown by GET /sale/status.

\* redisService.initializeStock: SET of the stock key
initializeStock(stockValue) == <<stockValue>>

\* getSuccessfulUserPurchases: the user_id of every SUCCESS row
getSuccessfulUserPurchases ==
  LET Sel[i \in 0..Len(orders)] ==
        IF i = 0 THEN <<>>
        ELSE IF orders[i].status = "SUCCESS"
             THEN Append(Sel[i - 1], orders[i].user_id)
             ELSE Sel[i - 1]
  IN Sel[Len(orders)]

\* getSaleById: the row of the sale, <<>> for null.
getSaleById(saleId) == IF saleId = defaultSaleId THEN <<flash_sale>> ELSE <<>>

\* A window that is open at both ends.
getSaleStatus_Exclusive(sale, t) ==
  IF sale = <<>> THEN "NOT_FOUND"
  ELSE IF t <= sale[1].start_time THEN "UPCOMING"
  ELSE IF t > sale[1].start_time /\ t < sale[1].end_time THEN "ACTIVE"
  ELSE "ENDED"

\* getSaleStatus at the instant t of the clock.
getSaleStatus(sale, t) ==
  IF sale = <<>> THEN "NOT_FOUND"
  ELSE IF t < sale[1].start_time THEN "UPCOMING"
  ELSE IF t >= sale[1].start_time /\ t <= sale[1].end_time THEN "ACTIVE"
  ELSE "ENDED"

isSaleActive(sale, t) == getSaleStatus(sale, t) = "ACTIVE"

\* A DB figure that ignores the orders.
calculateRemainingStockFromDB_Total == total_stock

\* calculateRemainingStockFromDB: total_stock - COUNT(SUCCESS), not below 0.
calculateRemainingStockFromDB == Max(0, total_stock - SuccessCount)

\* The Redis value shown as it is, without Math.max(0, .).
getRemainingStock_Raw(k) ==
  IF k # <<>> THEN k[1] ELSE calculateRemainingStockFromDB

\* getRemainingStock with Redis answering: the stock key, not below 0; the
\* DB figure when the key is absent.
getRemainingStock(k) ==
  IF k # <<>> THEN Max(0, k[1]) ELSE calculateRemainingStockFromDB

----------------------------------------------------------------------------
\* processPurchase

\* No administrative operation in progress.
IdleAdm ==
  [op             |-> "none",
   pc             |-> "idle",
   newStock       |-> 0,       \* resetSale: its argument
   remainingStock |-> 0,       \* initializeRedisStock: the DB figure
   keys           |-> {},      \* resetSaleKeys: the user keys found
   userPurchases  |-> <<>>,    \* completeRedisRecovery: rows still to restore
   started        |-> 0,       \* requests that had arrived when it began
   rest           |-> FALSE,   \* no request was in flight when it began
   chain          |-> <<>>,    \* operations that directly preceded it
   before         |-> <<>>]    \* tables and keys when it began

\* The history of the administrative operations: forgotten when a purchase
\* request arrives.
NoHist ==
  [chain |-> <<>>,    \* operations completed in direct succession, with no
                      \* request in flight
   same  |-> FALSE]   \* the last one left tables and keys as it found them

\* The chain ends with the operations ops, in this order.
EndsWith(chain, ops) ==
  /\ Len(chain) >= Len(ops)
  /\ \A i \in 1..Len(ops) : chain[Len(chain) - Len(ops) + i].op = ops[i]

\* Redis was lost, then the stock and then the user keys were restored, and
\* no request has arrived since.
Recovered == EndsWith(hist.chain, <<"wipe", "init", "recover">>)

\* The locals of a request that has not arrived.
IdleReq ==
  [pc               |-> "idle",
   userId           |-> 0,
   saleId           |-> 0,
   at               |-> 0,        \* the clock when step 1 read it
   saleStatus       |-> "none",   \* saleStatus of a SALE_NOT_ACTIVE response
   buyer            |-> FALSE,    \* the user held a SUCCESS order on arrival
   recovered        |-> FALSE,    \* it arrived right after a recovery of Redis
   stockDecremented |-> FALSE,
   userMarked       |-> FALSE,
   newStock         |-> 0,
   result           |-> "none",
   remainingStock   |-> 0,
   ins              |-> "none",   \* outcome of the insert: none, ok, dup, err
   incrs            |-> 0,        \* incrementStock calls that took effect
   tries            |-> 0,        \* incrementStock calls issued
   fallback         |-> FALSE,    \* the Redis check of step 2 threw; forgotten
                                  \* once the DB check has let the request pass
   clears           |-> 0,        \* removeUserPurchaseMark calls issued
   threw            |-> "none",   \* the step whose throw reached the catch
   keyLost          |-> FALSE,    \* the stock key was lost and not set again
   solo             |-> FALSE]    \* no other request in flight during this one

InFlight(q) == q.pc \notin {"idle", "done", "crashed"}

AtRest == \A r \in Requests : ~InFlight(req[r])

\* return { result: res, ... }
Return(q, res) == [q EXCEPT !.pc = "done", !.result = res]

\* A catch block that only reports the error.
Throw_NoRollback(q) == Return(q, ERROR)

\* No catch block: the error leaves processPurchase and no result is returned.
Throw_Rethrow(q) == [q EXCEPT !.pc = "thrown", !.threw = q.pc]

\* A catch block that rolls the stock back whatever the flags say.
Throw_AlwaysRollback(q) == [q EXCEPT !.pc = "catch_incr", !.threw = q.pc]

\* A throw inside the outer try: the catch block rolls back what the flags
\* say was done, then returns ERROR.
Throw(q) ==
  IF q.stockDecremented THEN [q EXCEPT !.pc = "catch_incr", !.threw = q.pc]
  ELSE IF q.userMarked THEN [q EXCEPT !.pc = "catch_unmark", !.threw = q.pc]
  ELSE Return([q EXCEPT !.threw = q.pc], ERROR)

\* The guard off by one: the request that takes the counter to -1 passes.
StockWentNegative_OffByOne(newStock) == newStock < -1

\* if (newStock < 0): the oversell guard
\* A guard that also rejects the request that took the last unit.
StockWentNegative_Zero(newStock) == newStock <= 0

StockWentNegative(newStock) == newStock < 0

\* The response carrying the counter as it was before the decrement.
ReportedStock_Before(newStock) == newStock + 1

\* remainingStock: newStock in the SUCCESS response
ReportedStock(newStock) == newStock

\* The users that have sent a request.
SeenUsers == {req[r].userId : r \in {s \in Requests : req[s].pc # "idle"}}

\* The user of the next request: user ids are opaque and only ever compared
\* for equality, so it is a user seen before or the next new one.
Users == 1..(Cardinality(SeenUsers) + 1)

\* The locals of request r as it arrives at instant t, for user u and sale
\* saleId.
\* The stock key was lost and has not been set again since: by the
\* operations completed since the last arrival or, if none of them touched
\* the key, as the last request found it.
KeyLost ==
  LET sets == {i \in DOMAIN hist.chain : hist.chain[i].op \in {"wipe", "init", "reset"}}
      last == CHOOSE i \in sets : \A j \in sets : j <= i
  IN IF sets # {} THEN hist.chain[last].op = "wipe"
     ELSE \E s \in Requests :
            /\ req[s].pc # "idle" /\ req[s].keyLost
            /\ \A o \in Requests : req[o].pc # "idle" => o <= s

Arriving(u, saleId, t) ==
  [IdleReq EXCEPT !.pc = "get_sale", !.userId = u, !.saleId = saleId, !.at = t,
                  !.buyer = HasSuccessOrder(u), !.recovered = Recovered,
                  !.keyLost = KeyLost,
                  !.solo = \A s \in Requests : ~InFlight(req[s])]

\* Step 1: get the sale and validate that it is active.  Requests are
\* numbered in the order they arrive.
Start(r, u, saleId, t) ==
  /\ req[r].pc = "idle"
  /\ \A s \in Requests : s < r => req[s].pc # "idle"
  /\ t >= now
  /\ now' = t
  /\ LET sale == getSaleById(saleId)
         q == Arriving(u, saleId, t)
     IN req' = [s \in Requests |->
                  IF s # r THEN [req[s] EXCEPT !.solo = FALSE]
                  ELSE IF sale = <<>> THEN Return(q, SALE_NOT_FOUND)
                  ELSE IF ~isSaleActive(sale, t)
                    THEN Return([q EXCEPT !.saleStatus = getSaleStatus(sale, t)],
                                SALE_NOT_ACTIVE)
                  ELSE [q EXCEPT !.pc = "check_mark"]]
  /\ hist' = NoHist
  /\ UNCHANGED <<flash_sale, total_stock, orders, stock, marks, adm>>

\* Step 1: the query of getSaleById throws
StartFails(r, u, saleId, t) ==
  /\ req[r].pc = "idle"
  /\ \A s \in Requests : s < r => req[s].pc # "idle"
  /\ t >= now
  /\ now' = t
  /\ req' = [s \in Requests |->
               IF s # r THEN [req[s] EXCEPT !.solo = FALSE]
               ELSE Throw(Arriving(u, saleId, t))]
  /\ hist' = NoHist
  /\ UNCHANGED <<flash_sale, total_stock, orders, stock, marks, adm>>

\* hasUserPurchased: redisService.hasUserPurchased
CheckMark(r) ==
  /\ req[r].pc = "check_mark"
  /\ req' = [req EXCEPT ![r] =
               IF req[r].userId \in marks
               THEN Return(@, ALREADY_PURCHASED)
               ELSE [@ EXCEPT !.pc = "check_db"]]
  /\ UNCHANGED <<flash_sale, now, adm, hist>>
  /\ UNCHANGED <<total_stock, orders, stock, marks>>

\* hasUserPurchased: the Redis check throws, fall back to the DB
CheckMarkFails(r) ==
  /\ req[r].pc = "check_mark"
  /\ req' = [req EXCEPT ![r] = [@ EXCEPT !.pc = "check_db", !.fallback = TRUE]]
  /\ UNCHANGED <<flash_sale, now, adm, hist>>
  /\ UNCHANGED <<total_stock, orders, stock, marks>>

\* A check of the Redis key alone: no DB check behind it.
CheckDb_Skip(r) ==
  /\ req[r].pc = "check_db"
  /\ req' = [req EXCEPT ![r] = [@ EXCEPT !.pc = "decr", !.fallback = FALSE]]
  /\ UNCHANGED <<flash_sale, now, adm, hist>>
  /\ UNCHANGED <<total_stock, orders, stock, marks>>

\* A check that takes a Redis error for "not purchased".
CheckDb_RedisOnly(r) ==
  /\ req[r].pc = "check_db"
  /\ req' = [req EXCEPT ![r] =
               IF ~req[r].fallback /\ HasSuccessOrder(req[r].userId)
               THEN Return(@, ALREADY_PURCHASED)
               ELSE [@ EXCEPT !.pc = "decr", !.fallback = FALSE]]
  /\ UNCHANGED <<flash_sale, now, adm, hist>>
  /\ UNCHANGED <<total_stock, orders, stock, marks>>

\* hasUserPurchased: the DB check (source of truth)
CheckDb(r) ==
  /\ req[r].pc = "check_db"
  /\ req' = [req EXCEPT ![r] =
               IF HasSuccessOrder(req[r].userId)
               THEN Return(@, ALREADY_PURCHASED)
               ELSE [@ EXCEPT !.pc = "decr", !.fallback = FALSE]]
  /\ UNCHANGED <<flash_sale, now, adm, hist>>
  /\ UNCHANGED <<total_stock, orders, stock, marks>>

\* hasUserPurchased: the DB query throws
CheckDbFails(r) ==
  /\ req[r].pc = "check_db"
  /\ req' = [req EXCEPT ![r] = Throw([@ EXCEPT !.fallback = FALSE])]
  /\ UNCHANGED <<flash_sale, now, adm, hist>>
  /\ UNCHANGED <<total_stock, orders, stock, marks>>

\* Step 3: atomic stock decrement, then the oversell guard
DecrementStock(r) ==
  /\ req[r].pc = "decr"
  /\ LET new == decrementStock(stock) IN
       /\ stock' = <<new>>
       /\ req' = [req EXCEPT ![r] =
                    [@ EXCEPT !.newStock = new,
                              !.stockDecremented = TRUE,
                              !.pc = IF StockWentNegative(new)
                                     THEN "soldout_incr" ELSE "mark"]]
  /\ UNCHANGED <<flash_sale, now, adm, hist>>
  /\ UNCHANGED <<total_stock, orders, marks>>

\* A decrement whose flag is set before the call is answered.
DecrementStockFails_FlagFirst(r) ==
  /\ req[r].pc = "decr"
  /\ req' = [req EXCEPT ![r] = Throw([@ EXCEPT !.stockDecremented = TRUE])]
  /\ UNCHANGED <<flash_sale, now, adm, hist>>
  /\ UNCHANGED <<total_stock, orders, stock, marks>>

DecrementStockFails(r) ==
  /\ req[r].pc = "decr"
  /\ req' = [req EXCEPT ![r] = Throw(@)]
  /\ UNCHANGED <<flash_sale, now, adm, hist>>
  /\ UNCHANGED <<total_stock, orders, stock, marks>>

\* A sold-out rejection that leaves the counter below zero.
SoldOutIncr_NoIncr(r) ==
  /\ req[r].pc = "soldout_incr"
  /\ req' = [req EXCEPT ![r] =
               Return([@ EXCEPT !.stockDecremented = FALSE], SOLD_OUT)]
  /\ UNCHANGED <<flash_sale, now, adm, hist>>
  /\ UNCHANGED <<total_stock, orders, stock, marks>>

\* newStock < 0: rollback and reject
SoldOutIncr(r) ==
  /\ req[r].pc = "soldout_incr"
  /\ stock' = <<incrementStock(stock)>>
  /\ req' = [req EXCEPT ![r] =
               Return([@ EXCEPT !.stockDecremented = FALSE,
                                !.incrs = @ + 1, !.tries = @ + 1], SOLD_OUT)]
  /\ UNCHANGED <<flash_sale, now, adm, hist>>
  /\ UNCHANGED <<total_stock, orders, marks>>

SoldOutIncrFails(r) ==
  /\ req[r].pc = "soldout_incr"
  /\ req' = [req EXCEPT ![r] = Throw([@ EXCEPT !.tries = @ + 1])]
  /\ UNCHANGED <<flash_sale, now, adm, hist>>
  /\ UNCHANGED <<total_stock, orders, stock, marks>>

\* Step 4: mark user as purchased in Redis
\* A step 4 that sets the flag but writes no key.
MarkUser_NoWrite(r) ==
  /\ req[r].pc = "mark"
  /\ req' = [req EXCEPT ![r] = [@ EXCEPT !.userMarked = TRUE, !.pc = "insert"]]
  /\ UNCHANGED <<flash_sale, now, adm, hist>>
  /\ UNCHANGED <<total_stock, orders, stock, marks>>

MarkUser(r) ==
  /\ req[r].pc = "mark"
  /\ marks' = marks \cup {req[r].userId}
  /\ req' = [req EXCEPT ![r] = [@ EXCEPT !.userMarked = TRUE, !.pc = "insert"]]
  /\ UNCHANGED <<flash_sale, now, adm, hist>>
  /\ UNCHANGED <<total_stock, orders, stock>>

\* A mark write whose flag is set before the call is answered.
MarkUserFails_FlagFirst(r) ==
  /\ req[r].pc = "mark"
  /\ req' = [req EXCEPT ![r] = Throw([@ EXCEPT !.userMarked = TRUE])]
  /\ UNCHANGED <<flash_sale, now, adm, hist>>
  /\ UNCHANGED <<total_stock, orders, stock, marks>>

MarkUserFails(r) ==
  /\ req[r].pc = "mark"
  /\ req' = [req EXCEPT ![r] = Throw(@)]
  /\ UNCHANGED <<flash_sale, now, adm, hist>>
  /\ UNCHANGED <<total_stock, orders, stock, marks>>

\* Step 5: BEGIN, createOrder, COMMIT, return SUCCESS
InsertOk(r) ==
  /\ req[r].pc = "insert"
  /\ ~UniqueViolation(orders, req[r].userId)
  /\ orders' = createOrder(orders, req[r].userId, "SUCCESS")
  /\ req' = [req EXCEPT ![r] =
               Return([@ EXCEPT !.ins = "ok",
                                !.remainingStock = ReportedStock(req[r].newStock)],
                      SUCCESS)]
  /\ UNCHANGED <<flash_sale, now, adm, hist>>
  /\ UNCHANGED <<total_stock, stock, marks>>

\* createOrder throws 23505; ROLLBACK succeeds
InsertDuplicate(r) ==
  /\ req[r].pc = "insert"
  /\ UniqueViolation(orders, req[r].userId)
  /\ req' = [req EXCEPT ![r] = [@ EXCEPT !.ins = "dup", !.pc = "dup_incr"]]
  /\ UNCHANGED <<flash_sale, now, adm, hist>>
  /\ UNCHANGED <<total_stock, orders, stock, marks>>

\* createOrder throws 23505 and the ROLLBACK in the catch throws as well
InsertDuplicateRollbackFails(r) ==
  /\ req[r].pc = "insert"
  /\ UniqueViolation(orders, req[r].userId)
  /\ req' = [req EXCEPT ![r] = Throw([@ EXCEPT !.ins = "dup"])]
  /\ UNCHANGED <<flash_sale, now, adm, hist>>
  /\ UNCHANGED <<total_stock, orders, stock, marks>>

\* getClient, BEGIN, INSERT or COMMIT throws another error: rethrown
\* A failed insert that leaves a FAILED row behind.
InsertFails_Record(r) ==
  /\ req[r].pc = "insert"
  /\ orders' = createOrder(orders, req[r].userId, "FAILED")
  /\ req' = [req EXCEPT ![r] = Throw([@ EXCEPT !.ins = "err"])]
  /\ UNCHANGED <<flash_sale, now, adm, hist>>
  /\ UNCHANGED <<total_stock, stock, marks>>

InsertFails(r) ==
  /\ req[r].pc = "insert"
  /\ req' = [req EXCEPT ![r] = Throw([@ EXCEPT !.ins = "err"])]
  /\ UNCHANGED <<flash_sale, now, adm, hist>>
  /\ UNCHANGED <<total_stock, orders, stock, marks>>

\* A duplicate that keeps the unit it took from the counter.
DupIncr_NoIncr(r) ==
  /\ req[r].pc = "dup_incr"
  /\ req' = [req EXCEPT ![r] = Return(@, ALREADY_PURCHASED)]
  /\ UNCHANGED <<flash_sale, now, adm, hist>>
  /\ UNCHANGED <<total_stock, orders, stock, marks>>

\* A duplicate reported as a generic error after the stock rollback.
DupIncr_Error(r) ==
  /\ req[r].pc = "dup_incr"
  /\ stock' = <<incrementStock(stock)>>
  /\ req' = [req EXCEPT ![r] = Return([@ EXCEPT !.incrs = @ + 1], ERROR)]
  /\ UNCHANGED <<flash_sale, now, adm, hist>>
  /\ UNCHANGED <<total_stock, orders, marks>>

\* dbError.code === '23505': rollback Redis stock, return ALREADY_PURCHASED
DupIncr(r) ==
  /\ req[r].pc = "dup_incr"
  /\ stock' = <<incrementStock(stock)>>
  /\ req' = [req EXCEPT ![r] =
               Return([@ EXCEPT !.incrs = @ + 1, !.tries = @ + 1], ALREADY_PURCHASED)]
  /\ UNCHANGED <<flash_sale, now, adm, hist>>
  /\ UNCHANGED <<total_stock, orders, marks>>

DupIncrFails(r) ==
  /\ req[r].pc = "dup_incr"
  /\ req' = [req EXCEPT ![r] = Throw([@ EXCEPT !.tries = @ + 1])]
  /\ UNCHANGED <<flash_sale, now, adm, hist>>
  /\ UNCHANGED <<total_stock, orders, stock, marks>>

\* Where the catch block goes after its stock rollback.
AfterCatchIncr(q) ==
  IF q.userMarked THEN [q EXCEPT !.pc = "catch_unmark"] ELSE Return(q, ERROR)

\* A catch block that goes on without the stock rollback.
CatchIncr_Skip(r) ==
  /\ req[r].pc = "catch_incr"
  /\ req' = [req EXCEPT ![r] = AfterCatchIncr(@)]
  /\ UNCHANGED <<flash_sale, now, adm, hist>>
  /\ UNCHANGED <<total_stock, orders, stock, marks>>

\* catch: if (stockDecremented) incrementStock
CatchIncr(r) ==
  /\ req[r].pc = "catch_incr"
  /\ stock' = <<incrementStock(stock)>>
  /\ req' = [req EXCEPT ![r] = AfterCatchIncr([@ EXCEPT !.incrs = @ + 1, !.tries = @ + 1])]
  /\ UNCHANGED <<flash_sale, now, adm, hist>>
  /\ UNCHANGED <<total_stock, orders, marks>>

\* catch: the stock rollback throws, is logged and swallowed
CatchIncrFails(r) ==
  /\ req[r].pc = "catch_incr"
  /\ req' = [req EXCEPT ![r] = AfterCatchIncr([@ EXCEPT !.tries = @ + 1])]
  /\ UNCHANGED <<flash_sale, now, adm, hist>>
  /\ UNCHANGED <<total_stock, orders, stock, marks>>

\* catch: if (userMarked) removeUserPurchaseMark, then return ERROR
CatchUnmark(r) ==
  /\ req[r].pc = "catch_unmark"
  /\ marks' = marks \ {req[r].userId}
  /\ req' = [req EXCEPT ![r] = Return([@ EXCEPT !.clears = @ + 1], ERROR)]
  /\ UNCHANGED <<flash_sale, now, adm, hist>>
  /\ UNCHANGED <<total_stock, orders, stock>>

\* catch: the mark removal throws, is logged and swallowed
CatchUnmarkFails(r) ==
  /\ req[r].pc = "catch_unmark"
  /\ req' = [req EXCEPT ![r] = Return([@ EXCEPT !.clears = @ + 1], ERROR)]
  /\ UNCHANGED <<flash_sale, now, adm, hist>>
  /\ UNCHANGED <<total_stock, orders, stock, marks>>

----------------------------------------------------------------------------
\* Administrative operations: resetSale, initializeRedisStock,
\* completeRedisRecovery, and the loss of every Redis key.

\* The tables and the keys of the sale.
DataState == <<total_stock, orders, stock, marks>>

\* The locals of an operation that begins.
Begin(op, arg) ==
  [IdleAdm EXCEPT !.op = op, !.newStock = arg,
                  !.started = Cardinality({r \in Requests : req[r].pc # "idle"}),
                  !.rest = AtRest,
                  !.chain = hist.chain,
                  !.before = DataState]

\* Operation op may begin: none is in progress.
CanBegin(op) ==
  /\ adm.op = "none"
  /\ LET resets == {i \in DOMAIN hist.chain : hist.chain[i].op = "reset"} IN
       IF op = "reset"
       THEN Cardinality(resets) < MaxResets
       ELSE Len(hist.chain) - Cardinality(resets) < MaxOps

\* The history once operation a has completed and left the state after: the
\* chain goes on when no request was in flight during the operation.
Completed(a, after) ==
  LET clean == /\ a.rest /\ AtRest
               /\ Cardinality({r \in Requests : req[r].pc # "idle"}) = a.started
  IN [chain |-> IF clean
                THEN Append(a.chain, [op |-> a.op, arg |-> a.newStock])
                ELSE <<>>,
      same  |-> after = a.before]

\* An UPDATE that adds to total_stock.
ResetUpdate_Add(newStock) ==
  /\ CanBegin("reset")
  /\ total_stock' = total_stock + newStock
  /\ adm' = [Begin("reset", newStock) EXCEPT !.pc = "delete_orders"]
  /\ UNCHANGED <<flash_sale, now, orders, stock, marks, req, hist>>

\* resetSale: UPDATE flash_sale SET total_stock = newStock
ResetUpdate(newStock) ==
  /\ CanBegin("reset")
  /\ total_stock' = newStock
  /\ adm' = [Begin("reset", newStock) EXCEPT !.pc = "delete_orders"]
  /\ UNCHANGED <<flash_sale, now, orders, stock, marks, req, hist>>

\* resetSale: DELETE FROM orders
ResetDeleteOrders ==
  /\ adm.pc = "delete_orders"
  /\ orders' = <<>>
  /\ adm' = [adm EXCEPT !.pc = "del_stock"]
  /\ UNCHANGED <<flash_sale, now, total_stock, stock, marks, req, hist>>

\* resetSaleKeys: del(stockKey)
ResetDelStock ==
  /\ adm.pc = "del_stock"
  /\ stock' = <<>>
  /\ adm' = [adm EXCEPT !.pc = "keys"]
  /\ UNCHANGED <<flash_sale, now, total_stock, orders, marks, req, hist>>

\* resetSaleKeys: keys(pattern); nothing to delete when none is found
ResetKeys ==
  /\ adm.pc = "keys"
  /\ adm' = [adm EXCEPT !.keys = marks,
                        !.pc = IF marks # {} THEN "del_keys" ELSE "init_stock"]
  /\ UNCHANGED <<flash_sale, now, total_stock, orders, stock, marks, req, hist>>

\* A reset that leaves the user keys in place.
ResetDelKeys_Skip ==
  /\ adm.pc = "del_keys"
  /\ adm' = [adm EXCEPT !.pc = "init_stock"]
  /\ UNCHANGED <<flash_sale, now, total_stock, orders, stock, marks, req, hist>>

\* resetSaleKeys: del(...keys)
ResetDelKeys ==
  /\ adm.pc = "del_keys"
  /\ marks' = marks \ adm.keys
  /\ adm' = [adm EXCEPT !.pc = "init_stock"]
  /\ UNCHANGED <<flash_sale, now, total_stock, orders, stock, req, hist>>

\* resetSale: initializeStock(saleId, newStock), the last call
ResetInitStock ==
  /\ adm.pc = "init_stock"
  /\ stock' = initializeStock(adm.newStock)
  /\ hist' = Completed(adm, <<total_stock, orders, stock', marks>>)
  /\ adm' = IdleAdm
  /\ UNCHANGED <<flash_sale, now, total_stock, orders, marks, req>>

\* initializeRedisStock: calculateRemainingStockFromDB
InitStockCalc ==
  /\ CanBegin("init")
  /\ adm' = [Begin("init", 0) EXCEPT !.pc = "set_stock",
                                     !.remainingStock = calculateRemainingStockFromDB]
  /\ UNCHANGED <<flash_sale, now, total_stock, orders, stock, marks, req, hist>>

\* initializeRedisStock: initializeStock(saleId, remainingStock)
InitStockSet ==
  /\ adm.pc = "set_stock"
  /\ stock' = initializeStock(adm.remainingStock)
  /\ hist' = Completed(adm, <<total_stock, orders, stock', marks>>)
  /\ adm' = IdleAdm
  /\ UNCHANGED <<flash_sale, now, total_stock, orders, marks, req>>

\* completeRedisRecovery: getSuccessfulUserPurchases; with no row the loop
\* is not entered
RecoverRead ==
  /\ CanBegin("recover")
  /\ LET a == [Begin("recover", 0) EXCEPT
                 !.pc = "restore",
                 !.userPurchases = getSuccessfulUserPurchases]
     IN IF a.userPurchases = <<>>
        THEN hist' = Completed(a, DataState) /\ adm' = IdleAdm
        ELSE adm' = a /\ hist' = hist
  /\ UNCHANGED <<flash_sale, now, total_stock, orders, stock, marks, req>>

\* A restore that flips the key of the user.
RecoverMark_Toggle ==
  /\ adm.pc = "restore"
  /\ LET u == Head(adm.userPurchases)
         rest == Tail(adm.userPurchases)
     IN /\ marks' = IF u \in marks THEN marks \ {u} ELSE marks \cup {u}
        /\ IF rest = <<>>
           THEN /\ hist' = Completed(adm, <<total_stock, orders, stock, marks'>>)
                /\ adm' = IdleAdm
           ELSE adm' = [adm EXCEPT !.userPurchases = rest] /\ hist' = hist
  /\ UNCHANGED <<flash_sale, now, total_stock, orders, stock, req>>

\* completeRedisRecovery: markUserPurchased for the next row
RecoverMark ==
  /\ adm.pc = "restore"
  /\ LET u == Head(adm.userPurchases)
         rest == Tail(adm.userPurchases)
     IN /\ marks' = marks \cup {u}
        /\ IF rest = <<>>
           THEN /\ hist' = Completed(adm, <<total_stock, orders, stock, marks'>>)
                /\ adm' = IdleAdm
           ELSE adm' = [adm EXCEPT !.userPurchases = rest] /\ hist' = hist
  /\ UNCHANGED <<flash_sale, now, total_stock, orders, stock, req>>

\* Redis loses every key of the sale (restart without persistence, failover).
FcWipe ==
  /\ CanBegin("wipe")
  /\ stock' = <<>>
  /\ marks' = {}
  /\ hist' = Completed(Begin("wipe", 0), <<total_stock, orders, <<>>, {}>>)
  /\ UNCHANGED <<flash_sale, now, total_stock, orders, req, adm>>

----------------------------------------------------------------------------
\* The shape of the state: the flash_sale and orders tables, the Redis keys
\* and the locals of processPurchase.
TypeOK ==
  /\ flash_sale \in [start_time : 0..MaxTime, end_time : 0..MaxTime]
  /\ now \in 0..MaxTime
  /\ total_stock \in 0..MaxStock
  /\ \A i \in DOMAIN orders :
       orders[i].user_id \in 1..MaxReq /\ orders[i].status \in {"SUCCESS", "FAILED"}
  /\ stock = <<>> \/ (Len(stock) = 1 /\ stock[1] \in -MaxReq..(MaxStock + MaxReq))
  /\ marks \subseteq 1..MaxReq
  /\ adm.op \in {"none", "reset", "init", "recover"}
  /\ adm.pc \in {"idle", "delete_orders", "del_stock", "keys", "del_keys",
                 "init_stock", "set_stock", "restore"}
  /\ Len(hist.chain) \in 0..(MaxOps + MaxResets)
  /\ \A r \in Requests :
       /\ req[r].pc \in {"idle", "check_mark", "check_db", "decr", "soldout_incr",
                        "mark", "insert", "dup_incr", "catch_incr",
                        "catch_unmark", "done", "crashed"}
       /\ req[r].userId \in 0..MaxReq
       /\ req[r].saleId \in {0} \cup SaleIds
       /\ req[r].at \in 0..MaxTime
       /\ req[r].saleStatus \in {"none", "UPCOMING", "ENDED"}
       /\ req[r].stockDecremented \in BOOLEAN
       /\ req[r].userMarked \in BOOLEAN
       /\ req[r].userMarked => (req[r].stockDecremented /\ req[r].newStock >= 0)
       /\ req[r].newStock \in -MaxReq..MaxStock
       /\ req[r].result \in {"none", SUCCESS, ALREADY_PURCHASED, SOLD_OUT,
                               SALE_NOT_ACTIVE, SALE_NOT_FOUND, ERROR}
       /\ (req[r].pc = "done") = (req[r].result # "none")
       /\ req[r].ins \in {"none", "ok", "dup", "err"}
       /\ req[r].incrs \in 0..1
       /\ req[r].tries \in 0..2
       /\ req[r].fallback \in BOOLEAN
       /\ req[r].clears \in 0..1
       /\ req[r].keyLost \in BOOLEAN
       /\ req[r].threw \in {"none", "get_sale", "check_db", "decr", "soldout_incr", "mark",
                           "insert", "dup_incr"}

----------------------------------------------------------------------------
\* The state after resetSale(saleId, S): total_stock = S, no orders, the
\* stock key set to S, no user keys; no request has arrived yet.  The sale
\* is active at every instant of the clock.
Init ==
  /\ flash_sale = [start_time |-> 0, end_time |-> MaxTime]
  /\ now = 0
  /\ total_stock \in 0..MaxStock
  /\ orders = <<>>
  /\ stock = <<total_stock>>
  /\ marks = {}
  /\ req = [r \in Requests |-> IdleReq]
  /\ adm = IdleAdm
  /\ hist = NoHist

\* The steps of request r in which every call answers.
Purchase(r) ==
  \/ \E u \in Users : Start(r, u, defaultSaleId, now)
  \/ CheckMark(r)
  \/ CheckDb(r)
  \/ DecrementStock(r)
  \/ SoldOutIncr(r)
  \/ MarkUser(r)
  \/ InsertOk(r)
  \/ InsertDuplicate(r)
  \/ DupIncr(r)

\* The steps of request r in which a Postgres call throws, and the catch
\* block they lead to.
PostgresFailure(r) ==
  \/ \E u \in Users : StartFails(r, u, defaultSaleId, now)
  \/ CheckDbFails(r)
  \/ InsertFails(r)
  \/ InsertDuplicateRollbackFails(r)
  \/ CatchIncr(r)
  \/ CatchUnmark(r)

\* The steps of request r in which a Redis call throws.
RedisFailure(r) ==
  \/ CheckMarkFails(r)
  \/ DecrementStockFails(r)
  \/ SoldOutIncrFails(r)
  \/ MarkUserFails(r)
  \/ DupIncrFails(r)
  \/ CatchIncrFails(r)
  \/ CatchUnmarkFails(r)

\* Purchase requests with Redis and Postgres available throughout.
NextAvail == \E r \in Requests : Purchase(r)

\* Postgres calls may fail; Redis is available throughout.
NextDolFail == \E r \in FaultRequests : Purchase(r) \/ PostgresFailure(r)

\* Every Redis and Postgres call of a request may fail.
Next == \E r \in FaultRequests : Purchase(r) \/ PostgresFailure(r) \/ RedisFailure(r)

\* The state after resetSale for a sale whose window opens after the first
\* instant of the clock and closes before the last; no request has arrived
\* yet.
InitWindow ==
  /\ flash_sale = [start_time |-> 1, end_time |-> MaxTime - 1]
  /\ now = 0
  /\ total_stock \in 0..MaxStock
  /\ orders = <<>>
  /\ stock = <<total_stock>>
  /\ marks = {}
  /\ req = [r \in Requests |-> IdleReq]
  /\ adm = IdleAdm
  /\ hist = NoHist

\* Request r arrives at any later instant, for any sale id.
Arrive(r) ==
  \E u \in Users, saleId \in SaleIds, t \in now..MaxTime : Start(r, u, saleId, t)

\* Requests that arrive before, during and after the window of the sale.
NextWindow == \E r \in FaultRequests : Arrive(r) \/ Purchase(r)

\* The steps of request r after its arrival.
Continue(r) ==
  /\ req[r].pc # "idle"
  /\ Purchase(r) \/ PostgresFailure(r) \/ RedisFailure(r)

SpecAvail   == Init /\ [][NextAvail]_vars
SpecDolFail == Init /\ [][NextDolFail]_vars
Spec        == Init /\ [][Next]_vars
SpecWindow  == InitWindow /\ [][NextWindow]_vars

\* POST /sale/reset with any stock
Reset ==
  \/ \E newStock \in 0..MaxStock : ResetUpdate(newStock)
  \/ ResetDeleteOrders
  \/ ResetDelStock
  \/ ResetKeys
  \/ ResetDelKeys
  \/ ResetInitStock

\* POST /sale/init-stock, and the bootstrap of the server
InitStock == InitStockCalc \/ InitStockSet

\* completeRedisRecovery
RecoverUserMarks == RecoverRead \/ RecoverMark

\* Purchases and resets, every call answering; a reset runs while no
\* request is in flight, and no request arrives during it.
NextReset ==
  \/ adm.op = "none" /\ \E r \in FaultRequests : Purchase(r)
  \/ AtRest /\ Reset

\* Purchases, Redis losses and the two restore operations, every call
\* answering; the losses and the operations happen while no request is in
\* flight, and no request arrives during an operation.
NextRecovery ==
  \/ adm.op = "none" /\ \E r \in FaultRequests : Purchase(r)
  \/ AtRest /\ (InitStock \/ RecoverUserMarks \/ FcWipe)

\* Purchases while the stock key is overwritten from the DB at any moment:
\* POST /sale/init-stock under traffic, or another worker starting up.
NextBootstrap ==
  \/ \E r \in FaultRequests : Purchase(r)
  \/ InitStock

SpecReset    == Init /\ [][NextReset]_vars
SpecRecovery == Init /\ [][NextRecovery]_vars
SpecBootstrap == Init /\ [][NextBootstrap]_vars

\* The worker that runs request r dies: the request takes no further step
\* and returns nothing; what it has written to Redis and Postgres stays.
Crash(r) ==
  /\ InFlight(req[r])
  /\ req' = [req EXCEPT ![r] = [@ EXCEPT !.pc = "crashed"]]
  /\ UNCHANGED <<flash_sale, now, adm, hist>>
  /\ UNCHANGED <<total_stock, orders, stock, marks>>

\* Purchases in which every call may fail and every request may be cut off
\* at any step.
NextCrash ==
  \E r \in FaultRequests :
    Purchase(r) \/ PostgresFailure(r) \/ RedisFailure(r) \/ Crash(r)

SpecCrash == Init /\ [][NextCrash]_vars

\* Purchases while POST /sale/reset runs at any
\* moment, its five statements interleaved with the steps of the requests.
NextResetLive ==
  \/ \E r \in FaultRequests : Purchase(r)
  \/ Reset

SpecResetLive == Init /\ [][NextResetLive]_vars

\* Every writer of the orders table and of the keys: purchases with Postgres
\* calls that may fail and, between two arrivals, while no request is in
\* flight, one administrative operation or the loss of the Redis keys.
NextOps ==
  \/ adm.op = "none" /\ \E r \in FaultRequests : Purchase(r) \/ PostgresFailure(r)
  \/ AtRest /\ hist.chain = <<>> /\ (Reset \/ InitStock \/ RecoverUserMarks \/ FcWipe)

SpecOps == Init /\ [][NextOps]_vars

\* A request, once received, runs to its return whether or not the caller
\* is still connected: every await of processPurchase settles, with a value
\* or (Postgres) with an error, and the continuation of the request runs.
Fairness == \A r \in FaultRequests : WF_vars(Purchase(r) \/ PostgresFailure(r))

SpecFair == Init /\ [][NextDolFail]_vars /\ Fairness

\* updateSaleTimesSchema: at least one field (the service throws
\* otherwise), and start before end when both are given. An absent field
\* is <<>>, a given one <<t>>.
ValidTimes(startTime, endTime) ==
  /\ startTime # <<>> \/ endTime # <<>>
  /\ (startTime # <<>> /\ endTime # <<>>) => startTime[1] < endTime[1]

\* PUT /sale/:saleId/times on the default sale: updateSaleTimes sets the
\* fields that are given and leaves the other as it is.
UpdateSaleTimes ==
  \E startTime, endTime \in {<<>>} \cup {<<t>> : t \in 0..MaxTime} :
    /\ ValidTimes(startTime, endTime)
    /\ flash_sale' =
         [start_time |-> IF startTime # <<>> THEN startTime[1]
                         ELSE flash_sale.start_time,
          end_time   |-> IF endTime # <<>> THEN endTime[1]
                         ELSE flash_sale.end_time]
    /\ UNCHANGED <<now, total_stock, orders, stock, marks, req, adm, hist>>

\* The window is set, in any number of updates, before the first request
\* arrives; the requests then arrive before, during and after it.
NextTimes ==
  \/ (\A r \in Requests : req[r].pc = "idle") /\ UpdateSaleTimes
  \/ \E r \in FaultRequests : Arrive(r) \/ Purchase(r)

SpecTimes == InitWindow /\ [][NextTimes]_vars

----------------------------------------------------------------------------
\* Vocabulary of the properties.

\* The requests that have arrived, and how many returned a given result.
Started == {r \in Requests : req[r].pc # "idle"}
Returned(res) == {r \in Requests : req[r].pc = "done" /\ req[r].result = res}
NumStarted == Cardinality(Started)
NumUsers == Cardinality(SeenUsers)
OrdersOf(u) == {i \in SuccessRows : orders[i].user_id = u}

\* C1: no overselling. In every reachable state, whatever the interleaving
\* of the requests and whichever calls fail, the number of SUCCESS orders of
\* the sale is at most its total_stock.
C1_NoOverselling == SuccessCount <= total_stock

\* The whole stock is sold and a later request was turned away.
C1_Witness ==
  /\ total_stock >= 1
  /\ SuccessCount = total_stock
  /\ Returned(SOLD_OUT) # {}

\* C2: one per customer. In every reachable state the orders table holds at
\* most one SUCCESS order per user of the sale.
C2_OnePerCustomer == \A u \in SeenUsers : Cardinality(OrdersOf(u)) <= 1

\* A second insert of a user who holds an order hit the unique constraint.
C2_Witness ==
  \E r \in Requests :
    /\ req[r].ins = "dup"
    /\ Cardinality(OrdersOf(req[r].userId)) = 1

\* C3 as stated: when N >= 2 requests of one user ran against a stock
\* S >= 1 with Redis and Postgres available, exactly one returned SUCCESS
\* and every other one ALREADY_PURCHASED, also when N > S.
C3_SameUserAllAlreadyPurchased ==
  (AtRest /\ NumStarted >= 2 /\ NumUsers = 1 /\ total_stock >= 1)
    => /\ Cardinality(Returned(SUCCESS)) = 1
       /\ Cardinality(Returned(ALREADY_PURCHASED)) = NumStarted - 1

\* C3 amended: exactly one returned SUCCESS and every other one
\* ALREADY_PURCHASED or SOLD_OUT (never ERROR); when N <= S every other one
\* returned ALREADY_PURCHASED.
C3_SameUserOneSuccess ==
  (AtRest /\ NumStarted >= 2 /\ NumUsers = 1 /\ total_stock >= 1)
    => /\ Cardinality(Returned(SUCCESS)) = 1
       /\ Started = Returned(SUCCESS) \cup Returned(ALREADY_PURCHASED)
                      \cup Returned(SOLD_OUT)
       /\ NumStarted <= total_stock
            => Cardinality(Returned(ALREADY_PURCHASED)) = NumStarted - 1

\* Requests of one user have all returned: one bought, one lost the race at
\* the counter, one lost it at the unique constraint or at a check.
C3_Witness ==
  /\ AtRest /\ NumStarted >= 2 /\ NumUsers = 1 /\ total_stock >= 1
  /\ Returned(SUCCESS) # {}
  /\ Returned(SOLD_OUT) # {}
  /\ Returned(ALREADY_PURCHASED) # {}

\* C4: every accepted purchase is durably recorded. Whenever a request has
\* returned SUCCESS the orders table holds a SUCCESS row of its user, and no
\* step of a purchase removes or changes a row of the table.
C4_DurablyRecorded ==
  /\ [](\A r \in Requests :
          req[r].result = SUCCESS => HasSuccessOrder(req[r].userId))
  /\ [][\A i \in DOMAIN orders :
          i \in DOMAIN orders' /\ orders'[i] = orders[i]]_vars

\* A purchase was accepted and, after it, the insert of another request
\* failed and was rolled back.
C4_Witness ==
  \E r, s \in Requests :
    /\ req[r].result = SUCCESS
    /\ HasSuccessOrder(req[r].userId)
    /\ r < s /\ req[s].ins = "err" /\ req[s].pc = "done"

\* C5: exact sellout with distinct users. When N requests of N different
\* users have all returned (Redis and Postgres available) against a stock S,
\* min(N, S) returned SUCCESS and the others SOLD_OUT, the table holds
\* min(N, S) SUCCESS orders and the Redis counter is S - min(N, S).
C5_ExactSellout ==
  (AtRest /\ NumUsers = NumStarted)
    => /\ Cardinality(Returned(SUCCESS)) = Min(NumStarted, total_stock)
       /\ Cardinality(Returned(SOLD_OUT)) =
            NumStarted - Min(NumStarted, total_stock)
       /\ SuccessCount = Min(NumStarted, total_stock)
       /\ stock = <<total_stock - Min(NumStarted, total_stock)>>

\* More distinct buyers than units: the stock sold out exactly.
C5_Witness ==
  /\ AtRest /\ NumUsers = NumStarted
  /\ total_stock >= 1 /\ NumStarted > total_stock
  /\ SuccessCount = total_stock
  /\ Returned(SOLD_OUT) # {}

\* C6 as stated: when N requests (users may repeat) have all returned
\* against a stock S, with Redis and Postgres available, the number of
\* SUCCESS results is min(distinct users, S).
C6_SuccessEqualsMin ==
  AtRest => Cardinality(Returned(SUCCESS)) = Min(NumUsers, total_stock)

\* C6 amended: the number of SUCCESS results is at most
\* min(distinct users, S), and equals it when no user repeats or N <= S.
C6_SuccessAtMostMin ==
  AtRest =>
    /\ Cardinality(Returned(SUCCESS)) <= Min(NumUsers, total_stock)
    /\ (NumUsers = NumStarted \/ NumStarted <= total_stock)
         => Cardinality(Returned(SUCCESS)) = Min(NumUsers, total_stock)

\* A user repeated, a unit was left unsold and another user was turned away.
C6_Witness ==
  /\ AtRest
  /\ NumUsers < NumStarted
  /\ Cardinality(Returned(SUCCESS)) < Min(NumUsers, total_stock)
  /\ Returned(SOLD_OUT) # {}

\* C7: at rest Redis and Postgres agree. With Redis available, whenever no
\* request is in flight the Redis counter is
\* max(0, total_stock - count of SUCCESS orders), also after inserts that
\* failed or hit the unique constraint.
C7_AtRestAgreement ==
  AtRest => stock = <<Max(0, total_stock - SuccessCount)>>

\* At rest after one insert hit the unique constraint.
C7_Witness ==
  /\ AtRest
  /\ \E r \in Requests : req[r].ins = "dup" /\ req[r].result = ALREADY_PURCHASED

\* C8: a request returns SUCCESS only if its own decrement returned a value
\* new >= 0, and the remaining_stock it reports is that value.
C8_AcceptedNonNegative ==
  \A r \in Requests :
    req[r].result = SUCCESS
      => /\ req[r].stockDecremented
         /\ req[r].newStock >= 0
         /\ req[r].remainingStock = req[r].newStock

\* A purchase was accepted while the counter was below zero.
C8_Witness ==
  /\ StockValue(stock) < 0
  /\ Returned(SUCCESS) # {}

\* C9: rollback of a failed insert. When the insert of a request that ran
\* alone failed with an error other than the unique violation (Redis
\* available), the request returned ERROR, the table holds no order of its
\* user, the Redis counter is back at its value before the decrement and the
\* mark of the user is gone.
C9_InsertFailureRollback ==
  \A r \in Requests :
    (req[r].pc = "done" /\ req[r].ins = "err" /\ req[r].solo)
      => /\ req[r].result = ERROR
         /\ ~UniqueViolation(orders, req[r].userId)
         /\ stock = <<req[r].newStock + 1>>
         /\ req[r].userId \notin marks

\* The failed insert came after a purchase of another user was committed.
C9_Witness ==
  \E r \in Requests :
    /\ req[r].pc = "done" /\ req[r].ins = "err" /\ req[r].solo
    /\ SuccessCount >= 1

\* C10: a request whose insert hit the unique constraint increments the
\* Redis counter exactly once, returns ALREADY_PURCHASED and never issues
\* the removal of the user's mark, also when a Redis call of it fails.
C10_DuplicateCompensation ==
  \A r \in Requests :
    req[r].ins = "dup"
      => /\ req[r].clears = 0
         /\ req[r].pc = "done"
              => req[r].result = ALREADY_PURCHASED /\ req[r].incrs = 1

\* The requests that hold a unit of the counter: decremented, past the
\* oversell guard or not, and neither committed nor compensated yet.
HoldsUnit(r) ==
  req[r].pc \in {"soldout_incr", "mark", "insert", "dup_incr", "catch_incr"}

\* C11: compensation restores the counter. A request that returned SOLD_OUT,
\* or ALREADY_PURCHASED after its insert hit the unique constraint, has left
\* the counter where it was before its decrement: the counter is always
\* total_stock minus the committed orders minus the units the requests in
\* flight hold, and after a request that ran alone and was rejected SOLD_OUT
\* it is back at the value before the decrement, 0 and not -1 for a sale
\* that had no stock left.
C11_CompensationRestores ==
  /\ StockValue(stock) =
       total_stock - SuccessCount - Cardinality({r \in Requests : HoldsUnit(r)})
  /\ \A r \in Requests :
       (req[r].pc = "done" /\ req[r].solo /\ req[r].result = SOLD_OUT)
         => stock = <<req[r].newStock + 1>> /\ stock = <<0>>
  /\ \A r \in Requests :
       (req[r].pc = "done" /\ req[r].result \in {SOLD_OUT, ALREADY_PURCHASED})
         => req[r].incrs = (IF req[r].result = SOLD_OUT \/ req[r].ins = "dup"
                            THEN 1 ELSE 0)

\* One request lost at the unique constraint and gave its unit back, another
\* was rejected SOLD_OUT, and every request has returned.
C11_Witness ==
  /\ AtRest
  /\ \E r \in Requests :
       req[r].pc = "done" /\ req[r].ins = "dup" /\ req[r].result = ALREADY_PURCHASED
  /\ \E r \in Requests : req[r].pc = "done" /\ req[r].result = SOLD_OUT
  /\ StockValue(stock) = total_stock - SuccessCount

\* What GET /sale/status shows as remainingStock.
RemainingStock == getRemainingStock(stock)

C18_DecrementFailureNoEffect ==
  /\ [](\A r \in Requests :
          req[r].threw = "decr"
            => /\ req[r].pc = "done" /\ req[r].result = ERROR
               /\ ~req[r].stockDecremented /\ ~req[r].userMarked
               /\ req[r].ins = "none" /\ req[r].incrs = 0 /\ req[r].clears = 0)
  /\ [][\A r \in Requests :
          (req[r].pc = "decr" /\ req'[r].threw = "decr")
            => UNCHANGED <<total_stock, orders, stock, marks>>]_vars

\* The decrement of a request failed while the sale still had stock and
\* another user's purchase was in flight.
C18_Witness ==
  \E r \in Requests :
    /\ req[r].threw = "decr" /\ req[r].result = ERROR
    /\ StockValue(stock) >= 1
    /\ \E s \in Requests : s # r /\ req[s].pc = "insert"

\* C20: whenever the order log holds a SUCCESS order of a user, the
\* coordinator holds the mark of that user.
C20_OrderImpliesMark == \A u \in 1..MaxReq : HasSuccessOrder(u) => u \in marks

\* A request rejected at step 1 has made no Redis call and no insert.
NoStoreAccess(q) ==
  /\ ~q.stockDecremented /\ ~q.userMarked
  /\ q.ins = "none" /\ q.incrs = 0 /\ q.clears = 0

Rank(pc) ==
  CASE pc = "idle"         -> 0
    [] pc = "check_mark"   -> 1
    [] pc = "check_db"     -> 2
    [] pc = "decr"         -> 3
    [] pc = "soldout_incr" -> 4
    [] pc = "mark"         -> 4
    [] pc = "insert"       -> 5
    [] pc = "dup_incr"     -> 6
    [] pc = "catch_incr"   -> 7
    [] pc = "catch_unmark" -> 8
    [] pc = "done"         -> 9

\* C19: every request terminates with exactly one of the six results,
\* whatever calls fail.  A request is at an await of processPurchase with no
\* result yet, or done with one result; while it is in flight its pending
\* call can return or throw, and each of its steps takes it strictly
\* further through the function, so that it is done after at most nine
\* steps; a result, once returned, does not change.
C19_AlwaysReturns ==
  /\ [](\A r \in FaultRequests :
          /\ req[r].pc \in {"idle", "check_mark", "check_db", "decr",
                           "soldout_incr", "mark", "insert", "dup_incr",
                           "catch_incr", "catch_unmark", "done"}
          /\ (req[r].pc = "done") =
               (req[r].result \in {SUCCESS, ALREADY_PURCHASED, SOLD_OUT,
                                   SALE_NOT_ACTIVE, SALE_NOT_FOUND, ERROR})
          /\ (req[r].pc # "done") = (req[r].result = "none")
          /\ InFlight(req[r]) => ENABLED Continue(r))
  /\ [][\A r \in FaultRequests :
          /\ req'[r].pc # req[r].pc => Rank(req'[r].pc) > Rank(req[r].pc)
          /\ req[r].pc = "done" => req'[r].result = req[r].result]_vars

\* A request returned although its insert and both of its compensating
\* calls failed.
C19_Witness ==
  \E r \in FaultRequests :
    /\ req[r].pc = "done" /\ req[r].result = ERROR
    /\ req[r].threw = "insert" /\ req[r].incrs = 0 /\ req[r].clears = 1
    /\ req[r].userId \in marks

\* The last operation of the chain: it completed with no request in flight,
\* and nothing has happened since.
LastOp == hist.chain[Len(hist.chain)]

\* The chain ends with two operations op with the same argument.
Twice(op) ==
  /\ adm.op = "none"
  /\ Len(hist.chain) >= 2
  /\ LastOp.op = op
  /\ hist.chain[Len(hist.chain) - 1] = LastOp

\* C13: the recovery law.  Once Redis has lost every key with no request in
\* flight and initializeRedisStock and then completeRedisRecovery have run,
\* the stock key is total_stock - count(SUCCESS) and every user with a
\* SUCCESS order has the key; a request of such a user that arrives then
\* returns ALREADY_PURCHASED.
C13_RecoveryLaw ==
  /\ (adm.op = "none" /\ Recovered)
       => /\ stock = <<total_stock - SuccessCount>>
          /\ RemainingStock = total_stock - SuccessCount
          /\ \A u \in 1..MaxReq : HasSuccessOrder(u) => u \in marks
  /\ \A r \in Requests :
       (req[r].recovered /\ req[r].buyer /\ req[r].pc # "idle")
         => req[r].pc \in {"check_mark", "done"}
            /\ (req[r].pc = "done" => req[r].result = ALREADY_PURCHASED)

\* After a loss and a recovery the request of a user that holds an order
\* was rejected, and stock is left.
C13_Witness ==
  /\ \E r \in Requests :
       /\ req[r].recovered /\ req[r].buyer
       /\ req[r].result = ALREADY_PURCHASED
       /\ req[r].userId \in marks
  /\ stock = <<total_stock - SuccessCount>>
  /\ SuccessCount >= 1 /\ total_stock > SuccessCount

\* C14: after resetSale(S) has completed with no request in flight,
\* total_stock is S, the stock key is S, there is no order and no user key.
C14_ResetPostcondition ==
  (adm.op = "none" /\ hist.chain # <<>> /\ LastOp.op = "reset")
    => /\ total_stock = LastOp.arg
       /\ stock = <<LastOp.arg>>
       /\ RemainingStock = LastOp.arg
       /\ orders = <<>>
       /\ marks = {}

\* One reset has completed, of a sale that had an order, a user key and
\* another total_stock.
C14_Witness ==
  /\ adm.op = "none" /\ Len(hist.chain) = 1 /\ LastOp.op = "reset"
  /\ ~hist.same
  /\ total_stock = 1
  /\ \E r \in Requests : req[r].result = SUCCESS /\ req[r].remainingStock = 1
  /\ \E r \in Requests : req[r].result = ALREADY_PURCHASED

\* C15: resetSale(S) twice in succession leaves the tables and the keys,
\* and with them the sale status, as the first resetSale(S) left them.
C15_ResetIdempotent == Twice("reset") => hist.same

\* Two resets to a positive stock in succession, after a purchase.
C15_Witness ==
  /\ Twice("reset") /\ Len(hist.chain) = 2
  /\ LastOp.arg >= 1
  /\ hist.same
  /\ \E r \in Requests : req[r].result = SUCCESS

\* A step of completeRedisRecovery.
RecoverStep ==
  \/ adm.op = "recover"
  \/ adm'.op = "recover"
  \/ /\ hist'.chain # hist.chain /\ hist'.chain # <<>>
     /\ hist'.chain[Len(hist'.chain)].op = "recover"

\* C16: completeRedisRecovery run twice in succession leaves the keys as
\* the first run left them, and no step of it changes the stock key, the
\* orders or total_stock.
C16_RecoverIdempotent ==
  /\ [](Twice("recover") => hist.same)
  /\ [][RecoverStep => UNCHANGED <<total_stock, orders, stock>>]_vars

\* The keys were lost, the first recovery wrote the keys of the buyers and
\* the second one found them written.
C16_Witness ==
  /\ Twice("recover") /\ EndsWith(hist.chain, <<"wipe", "recover", "recover">>)
  /\ hist.same
  /\ Cardinality(marks) >= 2
  /\ stock = <<>>

\* C21: an absent user key never contradicts a committed order.  A request
\* of a user that holds a SUCCESS order on arrival is rejected
\* ALREADY_PURCHASED, by the DB check when the key is missing, and never
\* decrements the counter, writes a key or inserts a row.
C21_AbsentMarkIsHarmless ==
  \A r \in Requests :
    (req[r].buyer /\ req[r].pc # "idle")
      => /\ req[r].pc \in {"check_mark", "check_db", "done"}
         /\ req[r].pc = "done" => req[r].result = ALREADY_PURCHASED
         /\ NoStoreAccess(req[r])
         /\ req[r].tries = 0

\* Redis lost the keys after a purchase; the buyer asked again, the key was
\* still missing, and the request was rejected with the counter where the
\* loss had left it.
C21_Witness ==
  \E r \in Requests :
    /\ req[r].buyer /\ req[r].result = ALREADY_PURCHASED
    /\ req[r].userId \notin marks
    /\ HasSuccessOrder(req[r].userId)
    /\ stock = <<>>

\* C22: an overwrite of the stock key from the DB never leads to more
\* SUCCESS orders than total_stock once every request has completed,
\* whether it ran with requests in flight or not.
C22_OverwriteNoLastingOversell == AtRest => SuccessCount <= total_stock

\* C23: a worker that starts while requests are in flight keeps
\* count(SUCCESS) <= total_stock and never has the stock key above
\* total_stock - count(SUCCESS).
C23_ScalingSafe ==
  /\ SuccessCount <= total_stock
  /\ stock # <<>> => stock[1] <= total_stock - SuccessCount

\* C24: no request leaves the counter debited without resolution. With
\* every call answering and the steps of each request weakly fair, a request
\* that has decremented the stock key eventually commits a SUCCESS order or
\* has incremented the key back.
C24_DebitResolved ==
  \A r \in FaultRequests :
    HoldsUnit(r) ~> (req[r].ins = "ok" \/ req[r].incrs >= 1)

\* A request holds a unit: it has decremented and has neither committed nor
\* compensated; another has resolved its unit through the catch block.
C24_Witness ==
  \E r, o \in FaultRequests :
    /\ HoldsUnit(r) /\ req[r].incrs = 0 /\ req[r].ins = "none"
    /\ req[o].pc = "done" /\ req[o].threw = "insert" /\ req[o].incrs = 1

\* C25: a compensating Redis operation that fails is not retried within the
\* request. Each request calls incrementStock at most once for its
\* decrement and removeUserPurchaseMark at most once.
C25_NoRetry ==
  \A r \in Requests : req[r].tries <= 1 /\ req[r].clears <= 1

\* Request r has had its DECR answered.
Decremented(r) == req[r].stockDecremented \/ req[r].result = SOLD_OUT

\* C26 as stated: with Redis and Postgres available, the requests that are
\* accepted are exactly those whose DECR returned a value in
\* total_stock, total_stock - 1, ..., 1, and a request whose DECR returned
\* a lower value is rejected SOLD_OUT after one compensating increment.
C26_AcceptedValuesDownToOne ==
  \A r \in Requests :
    (req[r].pc = "done" /\ Decremented(r))
      => /\ (req[r].result = SUCCESS) <=> (req[r].newStock \in 1..total_stock)
         /\ req[r].newStock < 1 => (req[r].result = SOLD_OUT /\ req[r].incrs = 1)

\* C26, amended: DECR returns the value after the decrement, so it never
\* returns total_stock; the accepted requests are among those whose DECR
\* returned a value in total_stock - 1, ..., 0, and such a request is
\* accepted unless its insert hits the unique constraint (then it gives the
\* unit back and answers ALREADY_PURCHASED), which cannot happen to a user
\* with a single request; a request whose DECR returned a negative value
\* is rejected SOLD_OUT after one compensating increment.
C26_AcceptedValuesDownToZero ==
  \A r \in Requests :
    Decremented(r)
      => /\ req[r].newStock < total_stock
         /\ req[r].pc = "done" =>
              /\ req[r].result = SUCCESS => req[r].newStock \in 0..(total_stock - 1)
              /\ req[r].newStock >= 0 =>
                   \/ req[r].result = SUCCESS
                   \/ /\ req[r].result = ALREADY_PURCHASED
                      /\ req[r].ins = "dup" /\ req[r].incrs = 1
                      /\ \E o \in Requests \ {r} : req[o].userId = req[r].userId
              /\ req[r].newStock < 0 =>
                   (req[r].result = SOLD_OUT /\ req[r].incrs = 1)

\* The request that took the last unit (DECR returned 0) was accepted, the
\* first one got total_stock - 1, and one whose DECR returned -1 was
\* rejected.
C26_Witness ==
  \E a, b, c \in Requests :
    /\ req[a].result = SUCCESS /\ req[a].newStock = total_stock - 1
    /\ req[b].result = SUCCESS /\ req[b].newStock = 0 /\ a # b
    /\ req[c].result = SOLD_OUT /\ req[c].newStock = -1

\* No request of user u has removed the purchase mark of u.
NoClear(u) == \A o \in Requests : req[o].userId = u => req[o].clears = 0

C28_FallbackToDb ==
  /\ [](\A r \in Requests :
         req[r].fallback
           => /\ req[r].pc \in {"check_db", "done"}
              /\ NoStoreAccess(req[r]) /\ req[r].tries = 0
              /\ req[r].pc = "done" => req[r].result = ALREADY_PURCHASED)
  /\ [][\A r \in Requests :
          (/\ req[r].pc = "check_db" /\ req[r].fallback
           /\ HasSuccessOrder(req[r].userId)
           /\ req'[r].pc # "check_db"
           /\ req'[r].threw = "none")
            => /\ req'[r].result = ALREADY_PURCHASED
               /\ req'[r].fallback /\ NoStoreAccess(req'[r])
               /\ DataState' = DataState]_vars

\* A request whose Redis check threw was rejected from the orders table;
\* the order was committed after the request had arrived, and the mark of
\* the user is in Redis.
C28_Witness ==
  \E r \in Requests :
    /\ req[r].fallback /\ req[r].result = ALREADY_PURCHASED
    /\ ~req[r].buyer
    /\ req[r].userId \in marks

\* getRemainingStock without a floor at 0 on either figure.
getRemainingStockOrFallback_NoFloor(k, redisUp) ==
  IF redisUp /\ k # <<>> THEN k[1] ELSE total_stock - SuccessCount

\* getRemainingStock, Redis answering or not: getStock throws when Redis is
\* unavailable, the error is caught and the DB figure is returned.
getRemainingStockOrFallback(k, redisUp) ==
  IF redisUp THEN getRemainingStock(k) ELSE calculateRemainingStockFromDB

\* C29: the remainingStock of GET /sale/status is never negative: it is the
\* stock key floored at 0 when Redis answers and the key exists, also while
\* the key is below 0, and total_stock minus the SUCCESS orders floored at 0
\* when Redis does not answer or the key is absent.
C29_RemainingNonNegative ==
  \A redisUp \in BOOLEAN :
    LET shown == getRemainingStockOrFallback(stock, redisUp) IN
      /\ shown >= 0
      /\ shown = IF redisUp /\ stock # <<>>
                 THEN (IF stock[1] < 0 THEN 0 ELSE stock[1])
                 ELSE (IF SuccessCount >= total_stock THEN 0
                       ELSE total_stock - SuccessCount)

\* The stock key is below 0 while a request is about to give its unit back.
C29_Witness ==
  /\ stock # <<>> /\ stock[1] < 0
  /\ \E r \in Requests : req[r].pc = "soldout_incr"
  /\ getRemainingStockOrFallback(stock, TRUE) = 0

\* Request r goes through step 1 in this step, the query answering.
SaleCheck(r) == req[r].pc = "idle" /\ req'[r].pc # "idle"

\* A request passes the sale check exactly when its sale exists and the
\* instant of the lookup is within the window, bounds included.
PassesWhenActive ==
  \A r \in Requests :
    SaleCheck(r) =>
      ((req'[r].pc = "check_mark") =
         /\ req'[r].saleId = defaultSaleId
         /\ flash_sale.start_time <= now' /\ now' <= flash_sale.end_time)

\* C30 as stated: the status of the sale at any instant t is UPCOMING iff
\* t < start_time, ACTIVE iff start_time <= t <= end_time, ENDED iff
\* t > end_time, and a purchase passes the sale check exactly when the
\* status is ACTIVE at the lookup.
C30_StatusByBounds ==
  /\ [](\A t \in 0..MaxTime :
         LET status == getSaleStatus(getSaleById(defaultSaleId), t) IN
           /\ (status = "UPCOMING") = (t < flash_sale.start_time)
           /\ (status = "ACTIVE") =
                (flash_sale.start_time <= t /\ t <= flash_sale.end_time)
           /\ (status = "ENDED") = (t > flash_sale.end_time))
  /\ [][PassesWhenActive]_vars

\* getPurchaseStats: failedCount
FailedCount == Cardinality({i \in DOMAIN orders : orders[i].status = "FAILED"})

\* C31: orders are created by the purchase pipeline only and never changed.
\* No row has the status FAILED, so the failedCount of the statistics is 0;
\* a step that changes the table is either the committed insert of a
\* request, which appends one SUCCESS row of its user and leaves the rows
\* before it as they are, or the DELETE of a reset.
C31_OrdersAppendOnly ==
  /\ [](FailedCount = 0 /\ SuccessCount = Len(orders))
  /\ [][orders' # orders =>
          \/ \E r \in Requests :
               /\ req[r].pc = "insert" /\ req'[r].result = SUCCESS
               /\ orders' = Append(orders, [user_id |-> req[r].userId,
                                             status  |-> "SUCCESS"])
          \/ adm.op = "reset" /\ adm.pc = "delete_orders" /\ orders' = <<>>]_vars

\* An insert failed and left no row, another order is committed, and an
\* operation other than a reset has run on the sale since.
C31_Witness ==
  /\ orders # <<>>
  /\ \E r \in Requests : req[r].pc = "done" /\ req[r].ins = "err"
  /\ hist.chain # <<>> /\ hist.chain[1].op # "reset"

\* C32: without Reset and InitStock, whatever the interleaving of the
\* requests, whichever calls fail and wherever a worker dies, the stock key
\* is at most total_stock minus the SUCCESS orders: the key and the table
\* can drift apart only towards selling less.
C32_DriftOnlyUnderSells ==
  StockValue(stock) <= total_stock - SuccessCount

\* A worker died between its decrement and its insert, and a compensating
\* increment was lost: with every request over, two units are missing
\* from the key for good.
C32_Witness ==
  /\ AtRest
  /\ \E r \in Requests :
       /\ req[r].pc = "crashed" /\ req[r].stockDecremented
       /\ req[r].ins = "none" /\ req[r].incrs = 0
  /\ \E r \in Requests :
       req[r].pc = "done" /\ req[r].tries > req[r].incrs
  /\ StockValue(stock) = total_stock - SuccessCount - 2

\* C33: ALREADY_PURCHASED is returned only for a user who holds a purchase.
\* Once a request has returned ALREADY_PURCHASED, the orders table holds a
\* SUCCESS order of its user, or a request of the user that was in flight
\* at the return is still on its way to the commit of its insert.
C33_AlreadyPurchasedIsReal ==
  \A r \in Requests :
    req[r].result = ALREADY_PURCHASED
      => \/ HasSuccessOrder(req[r].userId)
         \/ \E o \in Requests \ {r} :
              /\ req[o].userId = req[r].userId
              /\ req[o].pc = "insert" /\ req[o].ins = "none"

\* C34: a reset to the stock S interleaved with requests in flight keeps
\* the admission invariants. Once the reset is over the stock key is never
\* above S, and once the requests that were in flight have returned too,
\* the SUCCESS orders are at most S and the key is S minus their number.
C34_ResetUnderTraffic ==
  adm.op = "none"
    => /\ StockValue(stock) <= total_stock
       /\ AtRest => /\ SuccessCount <= total_stock
                    /\ stock = <<total_stock - SuccessCount>>

C36_MarkWriteFailure ==
  \A r \in Requests :
    req[r].threw = "mark"
      => /\ req[r].newStock >= 0 /\ req[r].stockDecremented
         /\ ~req[r].userMarked /\ req[r].ins = "none" /\ req[r].clears = 0
         /\ req[r].pc \in {"catch_incr", "done"}
         /\ req[r].pc = "done"
              => /\ req[r].result = ERROR
                 /\ req[r].tries = 1
                 /\ (req[r].incrs = 1 /\ req[r].solo)
                      => /\ stock = <<req[r].newStock + 1>>
                         /\ ~HasSuccessOrder(req[r].userId)

\* The mark write of a request that ran alone threw, and its increment put
\* the unit back.
C36_Witness ==
  \E r \in Requests :
    /\ req[r].threw = "mark" /\ req[r].result = ERROR
    /\ req[r].incrs = 1 /\ req[r].solo
    /\ stock = <<total_stock>> /\ total_stock > 0
    /\ req[r].userId \notin marks

\* C37: SOLD_OUT is not spurious. With Redis available and no reset or
\* init-stock, a request is rejected SOLD_OUT only through a decrement that
\* returned a negative value, and at that decrement every unit of
\* total_stock is a committed SUCCESS order or is held by another request
\* in flight that has decremented and has neither committed nor given the
\* unit back.
C37_SoldOutNotSpurious ==
  /\ [](\A r \in Requests :
         req[r].result = SOLD_OUT => (req[r].newStock < 0 /\ req[r].ins = "none"))
  /\ [][\A r \in Requests :
          (req[r].pc = "decr" /\ req'[r].pc = "soldout_incr")
            => SuccessCount
                 + Cardinality({o \in Requests \ {r} : HoldsUnit(o)})
                 >= total_stock]_vars

\* A request is rejected SOLD_OUT while no order is committed yet: the only
\* unit is held by a request whose insert then fails, and is given back.
C37_Witness ==
  \E r, o \in Requests :
    /\ req[r].result = SOLD_OUT
    /\ req[o].ins = "err" /\ req[o].pc = "done" /\ req[o].incrs = 1
    /\ orders = <<>> /\ total_stock = 1 /\ stock = <<1>>
============================================================================
